---- MODULE Spec2Model ----
(***************************************************************************)
(* A model of src/app.py: the Streamlit page that fetches NASA's picture    *)
(* of the day (get_apod), translates its explanation                        *)
(* (translate_to_japanese), generates a fortune (generate_fortune) and      *)
(* stores the results in st.session_state.                                  *)
(*                                                                          *)
(* Texts are sequences of one-character strings, so that str.lower,         *)
(* str.endswith and str.strip are computed character by character.          *)
(* Calendar dates are proleptic Gregorian ordinals (date.toordinal()).      *)
(***************************************************************************)
EXTENDS Integers, Sequences, FiniteSets, TLC

VARIABLES
    archive,   \* the picture API: the outcome of a request for each date
    session,   \* st.session_state
    page,      \* what the latest run of the script rendered
    last,      \* the log of the latest run: the calls made, the messages shown
    good       \* history: the values of the latest cycle that stored them

vars == <<archive, session, page, last, good>>

(***************************************************************************)
(* Dates                                                                    *)
(***************************************************************************)

\* How many days after the service's start date the model's calendar reaches.
MaxDays == 2

\* datetime.date.min.toordinal(): date - timedelta below it raises OverflowError.
DATE_MIN == 1

\* datetime.date(1995, 6, 16).toordinal(), the lower bound of the 404 walk.
APOD_START == 728460

Dates == {DATE_MIN} \cup ((APOD_START - 1) .. (APOD_START + MaxDays))

(***************************************************************************)
(* Python values                                                            *)
(***************************************************************************)

\* None: a value distinct from every text (texts hold one-character strings).
None == <<"None">>

\* dict.get(key, default)
Get(d, key, default) == IF key \in DOMAIN d THEN d[key] ELSE default

\* bool(v) for v a text or None
Truthy(v) == v # None /\ v # <<>>

UpperAlpha == <<"A","B","C","D","E","F","G","H","I","J","K","L","M",
                "N","O","P","Q","R","S","T","U","V","W","X","Y","Z">>

LowerAlpha == <<"a","b","c","d","e","f","g","h","i","j","k","l","m",
                "n","o","p","q","r","s","t","u","v","w","x","y","z">>

LowerChar(c) ==
    IF \E i \in 1..Len(UpperAlpha) : UpperAlpha[i] = c
    THEN LowerAlpha[CHOOSE i \in 1..Len(UpperAlpha) : UpperAlpha[i] = c]
    ELSE c

\* str.lower()
Lower(s) == [i \in 1..Len(s) |-> LowerChar(s[i])]

\* str.endswith(tuple of suffixes)
EndsWith(s, suffixes) ==
    \E suf \in suffixes :
        /\ Len(suf) <= Len(s)
        /\ SubSeq(s, Len(s) - Len(suf) + 1, Len(s)) = suf

Whitespace == {" ", "\t", "\n", "\r"}

RECURSIVE LStrip(_)
LStrip(s) == IF s # <<>> /\ Head(s) \in Whitespace THEN LStrip(Tail(s)) ELSE s

RECURSIVE RStrip(_)
RStrip(s) ==
    IF s # <<>> /\ s[Len(s)] \in Whitespace
    THEN RStrip(SubSeq(s, 1, Len(s) - 1))
    ELSE s

\* str.strip()
Strip(s) == RStrip(LStrip(s))

(***************************************************************************)
(* The picture API (requests.get on api.nasa.gov/planetary/apod)            *)
(***************************************************************************)

\* The JSON bodies the picture API may hold for a date: dicts with some of the
\* keys media_type, url, title and explanation.
Pictures == <<
    [media_type |-> "image", url |-> <<"a",".","j","p","g">>,
     title |-> <<"T","1">>, explanation |-> <<"e","1">>],
    [media_type |-> "video", url |-> <<"b",".","M","P","4">>],
    [media_type |-> "image", url |-> <<"c",".","m","o","v">>,
     title |-> <<"T","3">>, explanation |-> <<>>],
    [media_type |-> "video", url |-> <<"y","t","/","m","p","4">>,
     title |-> <<"T","4">>, explanation |-> <<" ","e","4">>],
    [media_type |-> "other", url |-> <<"d",".","A","v","i">>,
     title |-> <<"T","5">>, explanation |-> <<"e","5">>],
    [media_type |-> "image", title |-> <<"T","6">>, explanation |-> <<"e","6">>],
    [url |-> <<"f",".","a","v","i">>, title |-> <<"T","7">>]
  >>

\* The picture the archive holds for date d when it is rotated by k.
PictureOf(d, k) == Pictures[((d + k) % Len(Pictures)) + 1]

\* What requests.get does for one date: it raises (timeout, connection error),
\* or answers with a status code and, on 200, a JSON body.
NoData == [nodata |-> TRUE]
TimedOut == [raised |-> TRUE, status_code |-> 0, data |-> NoData]
Answer(status, data) == [raised |-> FALSE, status_code |-> status, data |-> data]

Statuses == {"timeout", "404", "500", "200"}

ResponseOf(s, d, k) ==
    CASE s = "timeout" -> TimedOut
      [] s = "404"     -> Answer(404, NoData)
      [] s = "500"     -> Answer(500, NoData)
      [] s = "200"     -> Answer(200, PictureOf(d, k))

Rotations == 0..(Len(Pictures) - 1)

\* The archives of the model: every assignment of an outcome to each date,
\* over every rotation of the pictures.
Archives == [status : [Dates -> Statuses], rotation : Rotations]

\* The archives that hold no picture before their first day: 404 before
\* APOD_START, any outcome from then on.
StartedArchives ==
    { x \in Archives :
        \A d \in Dates : d < APOD_START => x.status[d] = "404" }

\* What requests.get does for each date.
api == [d \in Dates |-> ResponseOf(archive.status[d], d, archive.rotation)]

(***************************************************************************)
(* st.error / st.warning messages                                           *)
(***************************************************************************)

ERR_NOT_FOUND == "error: NASA APOD data not found"
ERR_NASA_FAILED == "error: NASA data fetch failed"
WARN_OPENAI_LIMIT == "warning: OpenAI usage limit reached"
ERR_FORTUNE_FAILED == "error: fortune generation failed"
WARN_TRANSLATE_FAILED == "warning: translation failed"

(***************************************************************************)
(* get_apod                                                                 *)
(***************************************************************************)

NoTitle == <<"N","o"," ","T","i","t","l","e">>

\* The outcome of a call: a returned value or a raised exception, with the
\* dates it requested and the messages it signalled, in order.
Returned(value, requests, signals) ==
    [ok |-> TRUE, value |-> value, exc |-> "", requests |-> requests,
     signals |-> signals]

Raised(exc, requests, signals) ==
    [ok |-> FALSE, value |-> <<>>, exc |-> exc, requests |-> requests,
     signals |-> signals]

\* A get_apod that retries on every HTTP error status, not on 404 alone.
IsNotFound_any_error(res) == res.status_code >= 400

\* Line 36: the retry is taken on this status only.
IsNotFound(res) == res.status_code = 404

\* A get_apod that steps two days back.
Yesterday_two_days(today) == today - 2

\* Line 37: today - datetime.timedelta(days=1).
Yesterday(today) == today - 1

\* A get_apod whose walk stops one day early, never asking for 1995-06-16.
BeforeStart_inclusive(d) == d <= APOD_START

\* Line 38: the walk stops once the decremented date precedes 1995-06-16.
BeforeStart(d) == d < APOD_START

RECURSIVE get_apod(_, _)
get_apod(today, a) ==
    LET res == a[today] IN
    IF res.raised
    THEN \* requests.get raised: except Exception
         Raised("RequestException", <<today>>, <<ERR_NASA_FAILED>>)
    ELSE IF res.status_code >= 400
    THEN \* raise_for_status raised: except HTTPError
         IF IsNotFound(res)
         THEN IF Yesterday(today) < DATE_MIN
              THEN \* the subtraction raised inside the handler: the exception
                   \* leaves get_apod past the except clauses
                   Raised("OverflowError", <<today>>, <<>>)
              ELSE IF BeforeStart(Yesterday(today))
              THEN Raised("HTTPError", <<today>>, <<ERR_NOT_FOUND>>)
              ELSE \* return get_apod(yesterday): what it raises leaves this
                   \* call too, past the except clauses
                   LET r == get_apod(Yesterday(today), a) IN
                   [r EXCEPT !.requests = <<today>> \o @]
         ELSE Raised("HTTPError", <<today>>, <<ERR_NASA_FAILED>>)
    ELSE LET data == res.data IN
         IF Get(data, "media_type", "None") \notin {"image", "video"}
         THEN Raised("ValueError", <<today>>, <<ERR_NASA_FAILED>>)
         ELSE IF "url" \notin DOMAIN data
         THEN Raised("KeyError", <<today>>, <<ERR_NASA_FAILED>>)
         ELSE Returned(<<data["url"], Get(data, "title", NoTitle),
                         Get(data, "explanation", <<>>)>>,
                       <<today>>, <<>>)

(***************************************************************************)
(* The text-generation API (openai.chat.completions.create)                 *)
(***************************************************************************)

\* What one completion call does: it raises RateLimitError, raises another
\* exception, or returns a completion whose first choice holds content.
RateLimited == [kind |-> "rate_limit", content |-> None]
Failed == [kind |-> "error", content |-> None]
Completed(content) == [kind |-> "ok", content |-> content]

Translations == {RateLimited, Failed, Completed(<<" ","j","p","\n">>)}

Generations ==
    {RateLimited, Failed, Completed(None), Completed(<<" ","\n">>),
     Completed(<<" ","f","o"," ">>)}

\* Stand-ins, in Latin letters, for the two fallback strings of
\* generate_fortune (lines 69 and 74).
FALLBACK_RATE_LIMIT ==
    <<"u","c","h","u","u"," ","w","a"," ","s","h","i","z","u","k","a">>

FALLBACK_ERROR ==
    <<"k","y","o","u"," ","w","a"," ","k","o","k","o","r","o"," ","w","o">>

\* What a call of generate_fortune or translate_to_japanese does: it returns
\* value, or raises exc; signals are the messages it showed.
Result(value, signals) == [value |-> value, exc |-> "", signals |-> signals]

Raises(exc, signals) == [value |-> None, exc |-> exc, signals |-> signals]

\* completion.choices[0].message.content.strip() inside the try block: what it
\* returns, or the exception it raises there.
Completion(c) ==
    CASE c.kind = "rate_limit" -> Raises("RateLimitError", <<>>)
      [] c.kind = "error"      -> Raises("APIError", <<>>)
      [] c.content = None      -> Raises("AttributeError", <<>>)
      [] OTHER                 -> Result(Strip(c.content), <<>>)

\* A generate_fortune whose handlers are in the other order: except Exception
\* catches the rate-limit error too.
generate_fortune_one_handler(text, g) ==
    LET tried == Completion(g) IN
    IF tried.exc = "" THEN tried
    ELSE Result(FALLBACK_ERROR, <<ERR_FORTUNE_FAILED>>)

generate_fortune(text, g) ==
    LET tried == Completion(g) IN
    IF tried.exc = "" THEN tried
    ELSE IF tried.exc = "RateLimitError"
    THEN Result(FALLBACK_RATE_LIMIT, <<WARN_OPENAI_LIMIT>>)
    ELSE Result(FALLBACK_ERROR, <<ERR_FORTUNE_FAILED>>)

\* A translate_to_japanese that returns the stripped input on failure.
translate_to_japanese_stripped(text, t) ==
    LET tried == Completion(t) IN
    IF tried.exc = "" THEN tried
    ELSE Result(Strip(text), <<WARN_TRANSLATE_FAILED>>)

\* A translate_to_japanese that raises again after its warning.
translate_to_japanese_reraises(text, t) ==
    LET tried == Completion(t) IN
    IF tried.exc = "" THEN tried
    ELSE Raises(tried.exc, <<WARN_TRANSLATE_FAILED>>)

translate_to_japanese(text, t) ==
    LET tried == Completion(t) IN
    IF tried.exc = "" THEN tried
    ELSE Result(text, <<WARN_TRANSLATE_FAILED>>)

(***************************************************************************)
(* The page script                                                          *)
(***************************************************************************)

Fields ==
    {"media_url", "title", "fortune", "media_type", "explanation",
     "explanation_jp"}

VideoSuffixes ==
    { <<".","m","p","4">>, <<".","m","o","v">>, <<".","a","v","i">> }

\* A media type read from the URL without lower().
MediaType_case_sensitive(media_url) ==
    IF EndsWith(media_url, VideoSuffixes) THEN "video" ELSE "image"

\* Line 113
MediaType(media_url) ==
    IF EndsWith(Lower(media_url), VideoSuffixes) THEN "video" ELSE "image"

\* A store that leaves out st.session_state["explanation_jp"] = explanation_jp:
\* an earlier cycle's translation stays.
Store_keeps_translation(s, media_url, title, explanation, explanation_jp, fortune) ==
    [k \in DOMAIN s \cup Fields |->
        CASE k = "media_url"      -> media_url
          [] k = "title"          -> title
          [] k = "fortune"        -> fortune
          [] k = "media_type"     ->
                IF EndsWith(Lower(media_url), VideoSuffixes)
                THEN "video" ELSE "image"
          [] k = "explanation"    -> explanation
          [] k = "explanation_jp" ->
                IF k \in DOMAIN s THEN s[k] ELSE explanation_jp
          [] OTHER                -> s[k]]

\* Lines 109-116: the six assignments to st.session_state.
Store(s, media_url, title, explanation, explanation_jp, fortune) ==
    [k \in DOMAIN s \cup Fields |->
        CASE k = "media_url"      -> media_url
          [] k = "title"          -> title
          [] k = "fortune"        -> fortune
          [] k = "media_type"     -> MediaType(media_url)
          [] k = "explanation"    -> explanation
          [] k = "explanation_jp" -> explanation_jp
          [] OTHER                -> s[k]]

\* Lines 118-133: what the script renders below the button.
Render(s) ==
    IF Truthy(Get(s, "fortune", None))
    THEN IF s["media_type"] = "image" THEN "results:image" ELSE "results:video"
    ELSE "prompt"

\* The log of one call of translate_to_japanese or generate_fortune: its
\* argument, what the completion call did, and the call's result.
NoCall ==
    [called |-> FALSE, text |-> None, kind |-> "", content |-> None,
     value |-> None, exc |-> "", signals |-> <<>>]

Called(text, c, r) ==
    [called |-> TRUE, text |-> text, kind |-> c.kind, content |-> c.content,
     value |-> r.value, exc |-> r.exc, signals |-> r.signals]

NoFetch == [ok |-> FALSE, value |-> <<>>, exc |-> "", requests |-> <<>>,
            signals |-> <<>>]

\* The log of the latest run of the script.
RunLog(pressed, today, f, tr, fo) ==
    [pressed |-> pressed, today |-> today, fetch |-> f, translate |-> tr,
     generate |-> fo]

NoRun == RunLog(FALSE, 0, NoFetch, NoCall, NoCall)

NoCycle == <<>>

\* The values a cycle produced (history: the latest cycle that stored them).
Cycle(value, explanation_jp, fortune) ==
    [value |-> value, explanation_jp |-> explanation_jp, fortune |-> fortune]

\* The script's first run: lines 99-100 set fortune to None, the button is not
\* pressed, and the prompt is rendered.
FirstRun ==
    /\ session = [k \in {"fortune"} |-> None]
    /\ page = Render(session)
    /\ last = NoRun
    /\ good = NoCycle

Init == archive \in StartedArchives /\ FirstRun

\* What datetime.date.today() may return: any date of the calendar but
\* date.min, which no system clock reads.
Todays == Dates \ {DATE_MIN}

\* The run is left by an exception: nothing after the raising call runs, the
\* session is as it was, and the page shows the exception.
Aborted(log) ==
    /\ session' = session
    /\ page' = "exception"
    /\ last' = log
    /\ UNCHANGED <<archive, good>>

\* A run of the script with the button pressed (lines 102-133).
Refresh ==
    \E today \in Todays :
      \E f \in {get_apod(today, api)} :
        IF ~f.ok
        THEN Aborted(RunLog(TRUE, today, f, NoCall, NoCall))
        ELSE
      \E t \in Translations :
      \E tr \in {Called(f.value[3], t, translate_to_japanese(f.value[3], t))} :
        IF tr.exc # ""
        THEN Aborted(RunLog(TRUE, today, f, tr, NoCall))
        ELSE
      \E g \in Generations :
      \E fo \in {Called(f.value[3], g, generate_fortune(f.value[3], g))} :
        IF fo.exc # ""
        THEN Aborted(RunLog(TRUE, today, f, tr, fo))
        ELSE /\ session' = Store(session, f.value[1], f.value[2], f.value[3],
                                 tr.value, fo.value)
             /\ page' = Render(session')
             /\ last' = RunLog(TRUE, today, f, tr, fo)
             /\ good' = Cycle(f.value, tr.value, fo.value)
             /\ UNCHANGED archive

\* A run of the script without the button pressed (lines 99-100, 118-133).
Rerun ==
    /\ session' = session
    /\ page' = Render(session)
    /\ last' = NoRun
    /\ UNCHANGED <<archive, good>>

Next == Refresh \/ Rerun

Spec == Init /\ [][Next]_vars

(***************************************************************************)
(* get_apod on its own: any date against any upstream                       *)
(***************************************************************************)

InitFetch == archive \in Archives /\ FirstRun

\* One call get_apod(today), logged in last.fetch.
Fetch ==
    \E today \in Dates :
        /\ last' = RunLog(FALSE, today, get_apod(today, api), NoCall, NoCall)
        /\ UNCHANGED <<archive, session, page, good>>

NextFetch == Fetch

FetchSpec == InitFetch /\ [][NextFetch]_vars

(***************************************************************************)
(* Properties of get_apod, on the log of the latest call                    *)
(***************************************************************************)

Ran == last.fetch.requests # <<>>

Requests == last.fetch.requests

Asked(i) == Requests[i]

LastAsked == Requests[Len(Requests)]

AnswersNotFound(d) == ~api[d].raised /\ api[d].status_code = 404

AnswersInvalidMedia(d) ==
    /\ ~api[d].raised
    /\ api[d].status_code = 200
    /\ Get(api[d].data, "media_type", "None") \notin {"image", "video"}

AnswersPicture(d) ==
    /\ ~api[d].raised
    /\ api[d].status_code = 200
    /\ Get(api[d].data, "media_type", "None") \in {"image", "video"}
    /\ "url" \in DOMAIN api[d].data

AllNotFound == \A i \in 1..Len(Requests) : AnswersNotFound(Asked(i))

\* The i-th request is for the date i - 1 days before the start date: one
\* request per date, one day back at a time.
WalksBack == \A i \in 1..Len(Requests) : Asked(i) = last.today - (i - 1)

Outcome(f) == [ok |-> f.ok, value |-> f.value, exc |-> f.exc]

\* C2: for a date D that the API answers 404 for, with D - 1 not before
\* 1995-06-16, a call get_apod(D) made right after a call get_apod(D - 1)
\* against the same upstream has the same outcome (the returned triple, or
\* the exception).
C2_SameAsDayBefore ==
    [][ ( /\ Ran
          /\ last'.today = last.today + 1
          /\ AnswersNotFound(last'.today)
          /\ last.today >= APOD_START )
        => Outcome(last'.fetch) = Outcome(last.fetch) ]_vars

C2_Witness ==
    /\ Ran
    /\ AnswersNotFound(last.today)
    /\ last.today - 1 >= APOD_START
    /\ Len(Requests) = 2
    /\ last.fetch.ok

\* C7: get_apod asks for another date only after a 404: a 200 answer with a
\* media_type other than image or video makes it fail with no further
\* request, and so does every other error.
C7_RetryOnlyOnNotFound ==
    Ran =>
        /\ \A i \in 1..(Len(Requests) - 1) : AnswersNotFound(Asked(i))
        /\ ~AnswersNotFound(last.today) => Requests = <<last.today>>
        /\ AnswersInvalidMedia(LastAsked) =>
            /\ ~last.fetch.ok
            /\ last.fetch.exc = "ValueError"

C7_Witness ==
    /\ Ran
    /\ AnswersInvalidMedia(last.today)
    /\ last.today > APOD_START
    /\ AnswersPicture(last.today - 1)
    /\ Requests = <<last.today>>
    /\ ~last.fetch.ok

\* C10: every failing call of get_apod signals exactly one error before the
\* failure leaves it, whatever the failure and however far the walk went.
C10_SignalsOnce ==
    (Ran /\ ~last.fetch.ok) => Len(last.fetch.signals) = 1

\* A failing call signals exactly one error unless the failure is the
\* OverflowError of date.min - timedelta(days=1), which signals none; a walk
\* of several days signals once, at its deepest date.
SignalsOnceUnlessOverflow ==
    (Ran /\ ~last.fetch.ok) =>
        Len(last.fetch.signals) =
            IF last.fetch.exc = "OverflowError" THEN 0 ELSE 1

(***************************************************************************)
(* Properties of the page, on the log of the latest run                     *)
(***************************************************************************)

Stored == last.pressed /\ last.fetch.ok

\* C3: after every refresh whose fetch succeeds, the stored fortune is a
\* non-empty string, whatever the text-generation call did.
C3_FortuneNonEmpty == Stored => Truthy(session["fortune"])

\* C4: generate_fortune never raises; on a rate-limit error it returns the
\* rate-limit fallback and signals a warning, on any other failure it returns
\* the other fallback and signals an error; the two fallbacks differ and are
\* not empty.
C4_GenerateFallbacks ==
    LET c == last.generate IN
    c.called =>
        /\ c.exc = ""
        /\ c.kind = "rate_limit" =>
            /\ c.value = FALLBACK_RATE_LIMIT
            /\ c.signals = <<WARN_OPENAI_LIMIT>>
        /\ (c.kind = "error" \/ (c.kind = "ok" /\ c.content = None)) =>
            /\ c.value = FALLBACK_ERROR
            /\ c.signals = <<ERR_FORTUNE_FAILED>>
        /\ c.kind # "ok" => c.value # <<>> /\ c.value # None
        /\ FALLBACK_RATE_LIMIT # FALLBACK_ERROR

C4_Witness ==
    /\ last.generate.called
    /\ last.generate.text = <<>>
    /\ last.generate.kind = "rate_limit"
    /\ last.generate.value = FALLBACK_RATE_LIMIT

\* C5: translate_to_japanese never raises; when the text-generation call
\* fails it signals a warning and returns its input text unchanged.
C5_TranslateFallback ==
    LET c == last.translate IN
    c.called =>
        /\ c.exc = ""
        /\ (c.kind # "ok" \/ c.content = None) =>
            /\ c.value = c.text
            /\ c.signals = <<WARN_TRANSLATE_FAILED>>

C5_Witness ==
    /\ last.translate.called
    /\ last.translate.kind = "error"
    /\ last.translate.text = <<" ","e","4">>
    /\ last.translate.value = <<" ","e","4">>

C6_State ==
    /\ (last.pressed /\ ~last.fetch.ok) =>
        /\ ~last.translate.called
        /\ ~last.generate.called
    /\ (last.pressed /\ last.fetch.ok) =>
        /\ last.translate.called
        /\ last.generate.called
        /\ Fields \subseteq DOMAIN session
        /\ session["media_url"] = last.fetch.value[1]
        /\ session["title"] = last.fetch.value[2]
        /\ session["explanation"] = last.fetch.value[3]
        /\ session["explanation_jp"] = last.translate.value
        /\ session["fortune"] = last.generate.value
        /\ session["media_type"] \in {"image", "video"}

C6_Step == (last'.pressed /\ ~last'.fetch.ok) => session' = session

\* C6: a refresh whose get_apod fails calls neither translate_to_japanese nor
\* generate_fortune and leaves every field of the session as it was; a
\* refresh whose get_apod succeeds calls both and stores all six fields,
\* whatever the translation and generation calls did.
C6_FetchFailureAborts == [](C6_State) /\ [][C6_Step]_vars

C6_Witness ==
    /\ last.pressed
    /\ last.fetch.ok
    /\ last.translate.kind = "error"
    /\ last.generate.kind = "error"
    /\ session["explanation_jp"] = last.fetch.value[3]
    /\ session["fortune"] = FALLBACK_ERROR

\* c and the lower-case letter l are the same letter, whatever c's case.
SameLetter(c, l) ==
    c = l \/ \E i \in 1..26 : UpperAlpha[i] = c /\ LowerAlpha[i] = l

\* url ends in .mp4, .mov or .avi, in any mix of cases.
HasVideoSuffix(url) ==
    LET n == Len(url) IN
    /\ n >= 4
    /\ url[n - 3] = "."
    /\ \/ SameLetter(url[n-2], "m") /\ SameLetter(url[n-1], "p") /\ url[n] = "4"
       \/ SameLetter(url[n-2], "m") /\ SameLetter(url[n-1], "o")
            /\ SameLetter(url[n], "v")
       \/ SameLetter(url[n-2], "a") /\ SameLetter(url[n-1], "v")
            /\ SameLetter(url[n], "i")

\* C8: after a successful refresh the stored media_type is "video" exactly
\* when the stored media_url ends in .mp4, .mov or .avi in any case, and
\* "image" otherwise, whatever media_type the API returned.
C8_MediaTypeFromSuffix ==
    "media_url" \in DOMAIN session =>
        session["media_type"] =
            IF HasVideoSuffix(session["media_url"]) THEN "video" ELSE "image"

C8_Witness ==
    /\ Stored
    /\ session["media_type"] = "video"
    /\ api[LastAsked].data["media_type"] = "image"

\* The session a cycle's values make: the six fields and nothing else.
SessionOf(c) ==
    [k \in Fields |->
        CASE k = "media_url"      -> c.value[1]
          [] k = "title"          -> c.value[2]
          [] k = "explanation"    -> c.value[3]
          [] k = "explanation_jp" -> c.explanation_jp
          [] k = "fortune"        -> c.fortune
          [] k = "media_type"     ->
                IF HasVideoSuffix(c.value[1]) THEN "video" ELSE "image"]

\* C9 as stated: the session holds exactly the values of the latest cycle
\* whose fetch succeeded, and while no cycle has succeeded fortune is None and
\* the page shows the prompt.
C9_Original ==
    /\ good # NoCycle => session = SessionOf(good)
    /\ good = NoCycle =>
        /\ session = [k \in {"fortune"} |-> None]
        /\ page = "prompt"

\* C9 as amended: the session holds exactly the values of the latest cycle
\* whose fetch succeeded; while no cycle has succeeded fortune is None and no
\* results are shown: a run that reaches the rendering shows the prompt, and
\* a run whose fetch failed shows the exception only.
C9_LatestCycleStored ==
    /\ good # NoCycle => session = SessionOf(good)
    /\ good = NoCycle =>
        /\ session = [k \in {"fortune"} |-> None]
        /\ page \in {"prompt", "exception"}
        /\ page = "exception" <=> (last.pressed /\ ~last.fetch.ok)

C9_Witness ==
    /\ good # NoCycle
    /\ last.pressed
    /\ ~last.fetch.ok
    /\ session = SessionOf(good)
    /\ page = "exception"

====
